---- MODULE Spec2Model ----
(***************************************************************************)
(* Model of src/main.py: the OAuth2 token manager and the Google Tasks     *)
(* launcher extension built on it.                                         *)
(*                                                                         *)
(* Optional values (Python None / an object) are sequences of length 0 or  *)
(* 1: None == << >>, an object x is << x >>.                               *)
(***************************************************************************)
EXTENDS Integers, Sequences, FiniteSets, TLC

VARIABLES
    available,      \* GOOGLE_TASKS_AVAILABLE
    prefs,          \* extension.preferences
    credFile,       \* does the file named by a non-empty credentials_path exist
    dirExists,      \* does the token storage directory exist
    tokenFile,      \* token.json: None or [content, mode]
    token_manager,  \* GoogleTasksExtension.token_manager
    service,        \* GoogleTasksExtension.service
    now,            \* wall clock, in token lifetimes
    nextTok,        \* next access token the remote side will issue
    authCount,      \* get_credentials calls that got past their two early returns
    last,           \* record of the last event handled (history variable)
    san,            \* a text and what _sanitize_input made of it
    conc            \* two processes inside get_credentials on one token file

vars == << available, prefs, credFile, dirExists, tokenFile, token_manager,
           service, now, nextTok, authCount, last, san, conc >>

\* ---------------------------------------------------------------- bounds
MaxClock == 2
TokenLifetime == 1
MaxAuth == 2
MaxPad == 2

\* ------------------------------------------------------------- constants
OwnerOnly == 384
SanitizeLimit == 1000

None == << >>
Some(x) == << x >>

CreateModes == {384, 420}
\* the texts an event carries: none, only whitespace, a padded title
Texts == { << >>, << " " >>, << " ", "a", " " >> }

\* ------------------------------------------------------------ credentials
\* google.oauth2.credentials.Credentials as main.py uses it: tok = 0 is a
\* missing access token, exp = 0 a missing expiry.
Creds(t, r, e) == [tok |-> t, rt |-> r, exp |-> e]

expired(c, t) == c.exp # 0 /\ t >= c.exp

valid(c, t) == c.tok # 0 /\ ~expired(c, t)

\* to_json that leaves the refresh token out of the serialization
to_json_no_refresh_token(c) == << c.tok, 0, c.exp >>

to_json(c) == << c.tok, IF c.rt THEN 1 ELSE 0, c.exp >>

Parses(content) == Len(content) = 3

from_authorized_user_file(content) == Creds(content[1], content[2] = 1, content[3])

\* Path(p).expanduser().exists(): the empty path is the current directory.
PathExists(p, fileThere) == IF p = "" THEN TRUE ELSE fileThere

\* a path that InstalledAppFlow.from_client_secrets_file can open
IsClientSecretsFile(p, fileThere) == p # "" /\ fileThere

\* ------------------------------------------- OAuth2TokenManager (main.py:28)
\* OAuth2TokenManager.__init__: the paths are kept; mkdir(parents, exist_ok)
\* of the storage directory either succeeds or raises out of the constructor.
TokenManagerInit(credentials_path) ==
    IF dirExists
    THEN { [raised |-> FALSE, tm |-> Some([credentials_path |-> credentials_path]),
            dir |-> TRUE, ev |-> << "mkdir" >>] }
    ELSE { [raised |-> FALSE, tm |-> Some([credentials_path |-> credentials_path]),
            dir |-> TRUE, ev |-> << "mkdir" >>],
           [raised |-> TRUE, tm |-> None, dir |-> FALSE, ev |-> << "mkdir_fail" >>] }

\* main.py:48-52: the load of token.json; a raise leaves creds = None.
LoadToken(tf) ==
    IF tf = None
    THEN { [creds |-> None, ev |-> << >>] }
    ELSE { [creds |-> None, ev |-> << "load_fail" >>] }
         \cup (IF Parses(tf[1].content)
               THEN { [creds |-> Some(from_authorized_user_file(tf[1].content)),
                       ev |-> << "load" >>] }
               ELSE { })

\* main.py:56-61: refresh only a loaded, expired token that has a refresh token.
RefreshToken(l) ==
    IF l.creds # None /\ expired(l.creds[1], now) /\ l.creds[1].rt
    THEN { [creds |-> Some(Creds(nextTok, TRUE, now + TokenLifetime)),
            ev |-> Append(l.ev, "refresh")],
           [creds |-> None, ev |-> Append(l.ev, "refresh_fail")] }
    ELSE { l }

\* main.py:65-67: from_client_secrets_file reads the credentials file and
\* raises when it cannot; run_local_server then returns credentials (an
\* installed-app flow asks for offline access, so with a refresh token) or
\* raises.
FlowOutcomes(tm, ev) ==
    { [failed |-> TRUE, creds |-> None, ev |-> Append(ev, "secrets_fail")] }
    \cup (IF IsClientSecretsFile(tm.credentials_path, credFile)
          THEN { [failed |-> TRUE, creds |-> None, ev |-> Append(ev, "flow_fail")] }
               \cup { [failed |-> FALSE,
                       creds |-> Some(Creds(nextTok, TRUE, now + TokenLifetime)),
                       ev |-> Append(ev, "flow")] }
          ELSE { })

\* RunFlow without the "if not creds" guard of main.py:63
RunFlowUnguarded(tm, r) == FlowOutcomes(tm, r.ev)

\* RunFlow that gives up instead of starting the flow when nothing was loaded
RunFlowSkipped(tm, r) ==
    { [failed |-> r.creds = None, creds |-> r.creds, ev |-> r.ev] }

\* main.py:63-70: the interactive flow, run only when creds is None.
RunFlow(tm, r) ==
    IF r.creds # None
    THEN { [failed |-> FALSE, creds |-> r.creds, ev |-> r.ev] }
    ELSE FlowOutcomes(tm, r.ev)

\* main.py:73-78: open(token_file, 'w') truncates or creates the file, write
\* stores the JSON text, chmod sets 0o600; a raise at any step is logged.  A
\* write that raises leaves a proper prefix of the text in the file.
SaveToken(tf, c, ev) ==
    LET json == to_json(c)
        modes == IF tf = None THEN CreateModes ELSE { tf[1].mode }
    IN  { [tokenFile |-> tf, ev |-> Append(ev, "open_fail")] }
        \cup { [tokenFile |-> Some([content |-> SubSeq(json, 1, k), mode |-> m]),
                ev |-> Append(ev, "write_fail")] : k \in 0..(Len(json) - 1), m \in modes }
        \cup { [tokenFile |-> Some([content |-> json, mode |-> m]),
                ev |-> ev \o << "write", "chmod_fail" >>] : m \in modes }
        \cup { [tokenFile |-> Some([content |-> json, mode |-> OwnerOnly]),
                ev |-> ev \o << "write", "chmod" >>] }

\* AfterLoad with the token file opened for writing before the flow has run
AfterLoadOpenFirst(tm, tf, l) ==
    IF l.creds # None /\ valid(l.creds[1], now)
    THEN { [ret |-> l.creds, loaded |-> l.creds, tokenFile |-> tf, ev |-> l.ev] }
    ELSE UNION { UNION { IF f.failed
                         THEN { [ret |-> None, loaded |-> l.creds,
                                 tokenFile |-> Some([content |-> << >>,
                                                     mode |-> OwnerOnly]),
                                 ev |-> f.ev] }
                         ELSE { [ret |-> f.creds, loaded |-> l.creds,
                                 tokenFile |-> s.tokenFile, ev |-> s.ev]
                                : s \in SaveToken(tf, f.creds[1], f.ev) }
                         : f \in RunFlow(tm, r) }
                 : r \in RefreshToken(l) }

\* main.py:55-80, after the load
AfterLoad(tm, tf, l) ==
    IF l.creds # None /\ valid(l.creds[1], now)
    THEN { [ret |-> l.creds, loaded |-> l.creds, tokenFile |-> tf, ev |-> l.ev] }
    ELSE UNION { UNION { IF f.failed
                         THEN { [ret |-> None, loaded |-> l.creds, tokenFile |-> tf,
                                 ev |-> f.ev] }
                         ELSE { [ret |-> f.creds, loaded |-> l.creds,
                                 tokenFile |-> s.tokenFile, ev |-> s.ev]
                                : s \in SaveToken(tf, f.creds[1], f.ev) }
                         : f \in RunFlow(tm, r) }
                 : r \in RefreshToken(l) }

\* OAuth2TokenManager.get_credentials: the set of its possible outcomes for
\* token manager tm and token file tf.  The event "authenticate" marks a call
\* that got past the two early returns (main.py:45).
get_credentials(tm, tf) ==
    IF ~available
    THEN { [ret |-> None, loaded |-> None, tokenFile |-> tf, ev |-> << >>] }
    ELSE IF ~PathExists(tm.credentials_path, credFile)
    THEN { [ret |-> None, loaded |-> None, tokenFile |-> tf, ev |-> << >>] }
    ELSE { [ret |-> a.ret, loaded |-> a.loaded, tokenFile |-> a.tokenFile,
            ev |-> << "authenticate" >> \o a.ev]
           : a \in UNION { AfterLoad(tm, tf, l) : l \in LoadToken(tf) } }

\* ----------------------------------------- GoogleTasksExtension (main.py:83)
\* The part of the state a handler changes, threaded through its calls.
Ext(svc, tm, dir, tf) ==
    [service |-> svc, token_manager |-> tm, dirExists |-> dir, tokenFile |-> tf]

\* GoogleTasksExtension._init_token_manager
init_token_manager(x) ==
    IF x.token_manager = None
    THEN { [raised |-> i.raised, ev |-> i.ev,
            x |-> Ext(x.service, i.tm, i.dir, x.tokenFile)]
           : i \in TokenManagerInit(prefs.credentials_path) }
    ELSE { [raised |-> FALSE, ev |-> << >>, x |-> x] }

\* BuildService with self.service assigned before build is known to succeed
BuildServiceAssignFirst(x, g, ev) ==
    { [raised |-> FALSE, ret |-> Some([creds |-> g.ret[1]]), gc |-> Some(g),
       ev |-> Append(ev, "build"),
       x |-> Ext(Some([creds |-> g.ret[1]]), x.token_manager, x.dirExists, g.tokenFile)],
      [raised |-> FALSE, ret |-> None, gc |-> Some(g),
       ev |-> Append(ev, "build_fail"),
       x |-> Ext(Some([creds |-> g.ret[1]]), x.token_manager, x.dirExists, g.tokenFile)] }

\* build('tasks', 'v1', credentials=creds) and the assignment to self.service
BuildService(x, g, ev) ==
    { [raised |-> FALSE, ret |-> Some([creds |-> g.ret[1]]), gc |-> Some(g),
       ev |-> Append(ev, "build"),
       x |-> Ext(Some([creds |-> g.ret[1]]), x.token_manager, x.dirExists, g.tokenFile)],
      [raised |-> FALSE, ret |-> None, gc |-> Some(g),
       ev |-> Append(ev, "build_fail"),
       x |-> Ext(x.service, x.token_manager, x.dirExists, g.tokenFile)] }

\* main.py:109-119: the body of "if self.service is None"
Authenticate(x) ==
         UNION {
           IF i.raised
           THEN { [raised |-> TRUE, ret |-> None, gc |-> None, ev |-> i.ev, x |-> i.x] }
           ELSE UNION {
                  IF g.ret # None
                  THEN BuildService(i.x, g, i.ev \o g.ev)
                  ELSE { [raised |-> FALSE, ret |-> i.x.service, gc |-> Some(g),
                          ev |-> i.ev \o g.ev,
                          x |-> Ext(i.x.service, i.x.token_manager, i.x.dirExists,
                                    g.tokenFile)] }
                  : g \in get_credentials(i.x.token_manager[1], i.x.tokenFile) }
           : i \in init_token_manager(x) }

\* get_tasks_service without the GOOGLE_TASKS_AVAILABLE test of main.py:105
get_tasks_service_unchecked(x) ==
    IF x.service # None
    THEN { [raised |-> FALSE, ret |-> x.service, gc |-> None, ev |-> << >>, x |-> x] }
    ELSE Authenticate(x)

\* get_tasks_service without the "if self.service is None" cache test
get_tasks_service_uncached(x) ==
    IF ~available
    THEN { [raised |-> FALSE, ret |-> None, gc |-> None, ev |-> << >>, x |-> x] }
    ELSE Authenticate(x)

\* GoogleTasksExtension.get_tasks_service
get_tasks_service(x) ==
    IF ~available
    THEN { [raised |-> FALSE, ret |-> None, gc |-> None, ev |-> << >>, x |-> x] }
    ELSE IF x.service # None
    THEN { [raised |-> FALSE, ret |-> x.service, gc |-> None, ev |-> << >>, x |-> x] }
    ELSE Authenticate(x)

IsSpace(c) == c = " "

\* str.strip(): drop the leading and the trailing whitespace
strip(text) ==
    LET keep == { i \in 1..Len(text) : ~IsSpace(text[i]) }
    IN  IF keep = { } THEN << >>
        ELSE LET lo == CHOOSE i \in keep : \A j \in keep : i <= j
                 hi == CHOOSE i \in keep : \A j \in keep : j <= i
             IN  SubSeq(text, lo, hi)

\* _sanitize_input that cuts before it strips: text[:1000].strip()
sanitize_input_cut_first(text) ==
    IF text = << >> THEN << >>
    ELSE strip(SubSeq(text, 1, IF Len(text) < SanitizeLimit THEN Len(text)
                               ELSE SanitizeLimit))

\* _sanitize_input that strips on the left only: text.lstrip()[:1000]
sanitize_input_lstrip(text) ==
    IF text = << >> \/ \A i \in 1..Len(text) : IsSpace(text[i]) THEN << >>
    ELSE LET lo == CHOOSE i \in 1..Len(text) :
                       ~IsSpace(text[i]) /\ \A j \in 1..(i - 1) : IsSpace(text[j])
             t == SubSeq(text, lo, Len(text))
         IN  SubSeq(t, 1, IF Len(t) < SanitizeLimit THEN Len(t) ELSE SanitizeLimit)

\* GoogleTasksExtension._sanitize_input
sanitize_input(text) ==
    IF text = << >> THEN << >>
    ELSE LET t == strip(text)
         IN  SubSeq(t, 1, IF Len(t) < SanitizeLimit THEN Len(t) ELSE SanitizeLimit)

\* what service.tasklists().list().execute() can answer with
ListAnswers == { << >>, << "list0" >> }

\* get_default_tasklist_id that drops the cached service when the listing raises
get_default_tasklist_id_reset(x) ==
    UNION {
      IF s.raised
      THEN { [raised |-> TRUE, id |-> "", ev |-> s.ev, gc |-> s.gc, x |-> s.x] }
      ELSE IF s.ret = None
      THEN { [raised |-> FALSE, id |-> "", ev |-> s.ev, gc |-> s.gc, x |-> s.x] }
      ELSE { [raised |-> FALSE, id |-> "", ev |-> Append(s.ev, "list_fail"),
              gc |-> s.gc,
              x |-> Ext(None, s.x.token_manager, s.x.dirExists, s.x.tokenFile)] }
           \cup { [raised |-> FALSE, id |-> IF items = << >> THEN "" ELSE items[1],
                   ev |-> Append(s.ev, "list"), gc |-> s.gc, x |-> s.x]
                  : items \in ListAnswers }
      : s \in get_tasks_service(x) }

\* GoogleTasksExtension.get_default_tasklist_id
get_default_tasklist_id(x) ==
    UNION {
      IF s.raised
      THEN { [raised |-> TRUE, id |-> "", ev |-> s.ev, gc |-> s.gc, x |-> s.x] }
      ELSE IF s.ret = None
      THEN { [raised |-> FALSE, id |-> "", ev |-> s.ev, gc |-> s.gc, x |-> s.x] }
      ELSE { [raised |-> FALSE, id |-> "", ev |-> Append(s.ev, "list_fail"),
              gc |-> s.gc, x |-> s.x] }
           \cup { [raised |-> FALSE, id |-> IF items = << >> THEN "" ELSE items[1],
                   ev |-> Append(s.ev, "list"), gc |-> s.gc, x |-> s.x]
                  : items \in ListAnswers }
      : s \in get_tasks_service(x) }

Result(ok, msg) == Some([success |-> ok, message |-> msg])

AddOutcome(r, res, ev, sent, x) ==
    [raised |-> r, result |-> res, ev |-> ev, sent |-> sent, x |-> x]

\* InsertTask without the "if not tasklist_id" test of main.py:151
InsertTaskUnchecked(x, title, ev) ==
    LET ids == IF prefs.tasklist_id # ""
               THEN { [raised |-> FALSE, id |-> prefs.tasklist_id, ev |-> << >>,
                       gc |-> None, x |-> x] }
               ELSE get_default_tasklist_id(x)
    IN UNION {
         IF d.raised
         THEN { AddOutcome(TRUE, None, ev \o d.ev, None, d.x) }
         ELSE { AddOutcome(FALSE, Result(TRUE, "Task added successfully"),
                           (ev \o d.ev) \o << "insert" >>,
                           Some([tasklist |-> d.id, title |-> title]), d.x),
                AddOutcome(FALSE, Result(FALSE, "Failed to add task"),
                           (ev \o d.ev) \o << "insert_fail" >>,
                           Some([tasklist |-> d.id, title |-> title]), d.x) }
         : d \in ids }

\* main.py:147-166: resolve the task list and insert
InsertTask(x, title, ev) ==
    LET ids == IF prefs.tasklist_id # ""
               THEN { [raised |-> FALSE, id |-> prefs.tasklist_id, ev |-> << >>,
                       gc |-> None, x |-> x] }
               ELSE get_default_tasklist_id(x)
    IN UNION {
         IF d.raised
         THEN { AddOutcome(TRUE, None, ev \o d.ev, None, d.x) }
         ELSE IF d.id = ""
         THEN { AddOutcome(FALSE, Result(FALSE, "No task list available"),
                           ev \o d.ev, None, d.x) }
         ELSE { AddOutcome(FALSE, Result(TRUE, "Task added successfully"),
                           (ev \o d.ev) \o << "insert" >>,
                           Some([tasklist |-> d.id, title |-> title]), d.x),
                AddOutcome(FALSE, Result(FALSE, "Failed to add task"),
                           (ev \o d.ev) \o << "insert_fail" >>,
                           Some([tasklist |-> d.id, title |-> title]), d.x) }
         : d \in ids }

\* GoogleTasksExtension.add_task_to_google_tasks
add_task_to_google_tasks(x, task_text) ==
    UNION {
      LET o == IF s.raised
               THEN { AddOutcome(TRUE, None, s.ev, None, s.x) }
               ELSE IF s.ret = None
               THEN { AddOutcome(FALSE, Result(FALSE, "Google Tasks service not available"),
                                 s.ev, None, s.x) }
               ELSE IF sanitize_input(task_text) = << >>
               THEN { AddOutcome(FALSE, Result(FALSE, "Invalid task text"),
                                 s.ev, None, s.x) }
               ELSE InsertTask(s.x, sanitize_input(task_text), s.ev)
      IN  { [raised |-> a.raised, result |-> a.result, ev |-> a.ev, sent |-> a.sent,
             x |-> a.x, gc |-> s.gc] : a \in o }
      : s \in get_tasks_service(x) }

\* ------------------------------------------------------------- listeners
\* the issued-token counter moves when the remote side handed out a token
Issued(ev) == \E i \in 1..Len(ev) : ev[i] \in { "refresh", "flow" }

GcView(gc) ==
    IF gc = None THEN None
    ELSE Some([ret |-> gc[1].ret, loaded |-> gc[1].loaded])

Count(ev, names) == Cardinality({ i \in 1..Len(ev) : ev[i] \in names })

NoCall == [op |-> "none", text |-> << >>, at |-> 0, called |-> FALSE, raised |-> FALSE,
           action |-> "none", result |-> None, gc |-> None, ev |-> << >>,
           sent |-> None, item |-> "none"]

\* ItemEnterEventListener.on_event
ItemEnter(task_text) ==
    /\ authCount < MaxAuth
    /\ IF task_text # << >>
       THEN \E a \in add_task_to_google_tasks(
                       Ext(service, token_manager, dirExists, tokenFile), task_text) :
              /\ service' = a.x.service
              /\ token_manager' = a.x.token_manager
              /\ dirExists' = a.x.dirExists
              /\ tokenFile' = a.x.tokenFile
              /\ nextTok' = IF Issued(a.ev) THEN nextTok + 1 ELSE nextTok
              /\ authCount' = authCount + Count(a.ev, { "authenticate" })
              /\ last' = [op |-> "ItemEnter", text |-> task_text, at |-> now,
                          called |-> TRUE, raised |-> a.raised,
                          action |-> IF a.raised THEN "none" ELSE "HideWindowAction",
                          result |-> a.result, gc |-> GcView(a.gc), ev |-> a.ev,
                          sent |-> a.sent, item |-> "none"]
       ELSE /\ last' = [NoCall EXCEPT !.op = "ItemEnter", !.at = now,
                                      !.action = "HideWindowAction"]
            /\ UNCHANGED << service, token_manager, dirExists, tokenFile, nextTok,
                            authCount >>
    /\ UNCHANGED << available, prefs, credFile, now, san, conc >>

\* KeywordQueryEventListener.on_event
KeywordQuery(query) ==
    /\ last' = [NoCall EXCEPT
                  !.op = "KeywordQuery", !.text = query, !.at = now,
                  !.action = "RenderResultListAction",
                  !.item = IF ~available THEN "Google Tasks API not available"
                           ELSE IF prefs.credentials_path = ""
                                   \/ ~PathExists(prefs.credentials_path, credFile)
                           THEN "OAuth2 credentials required"
                           ELSE IF query # << >> THEN "Add to Google Tasks: query"
                           ELSE "Add task to Google Tasks"]
    /\ UNCHANGED << available, prefs, credFile, dirExists, tokenFile, token_manager,
                    service, now, nextTok, authCount, san, conc >>

\* time passes between events
Tick ==
    /\ now < MaxClock
    /\ now' = now + 1
    /\ UNCHANGED << available, prefs, credFile, dirExists, tokenFile, token_manager,
                    service, nextTok, authCount, last, san, conc >>

\* ------------------------------------------------------------------ Init
Procs == { "p", "q" }

\* no other process is inside get_credentials
NoProcesses ==
    [proc |-> [p \in Procs |-> [pc |-> "done", creds |-> None, saved |-> FALSE]],
     wrote |-> << >>]

\* no text has been handed to _sanitize_input
NoText == [lead |-> 0, len |-> 0, gap |-> 0, trail |-> 0, text |-> << >>,
           passes |-> 0, out |-> << >>, twice |-> << >>]

InitCreds == { Creds(t, r, e) : t \in {0, 1}, r \in BOOLEAN, e \in {0, 1} }

InitTokenFiles ==
    { None }
    \cup { Some([content |-> c, mode |-> m])
           : c \in { << >> } \cup { to_json(k) : k \in InitCreds }, m \in CreateModes }

CredentialPaths == { "", "credentials.json" }
TasklistIds == { "", "list7" }

\* GoogleTasksExtension.__init__ in an environment left by the user and by
\* earlier processes
Init ==
    /\ available \in BOOLEAN
    /\ prefs \in [credentials_path : CredentialPaths, tasklist_id : TasklistIds]
    /\ credFile \in BOOLEAN
    /\ dirExists \in BOOLEAN
    /\ tokenFile \in IF dirExists THEN InitTokenFiles ELSE { None }
    /\ token_manager = None
    /\ service = None
    /\ now = 1
    /\ nextTok = 2
    /\ authCount = 0
    /\ last = NoCall
    /\ san = NoText
    /\ conc = NoProcesses

\* The launcher delivers events one at a time and each handler runs to
\* completion; which event comes next, and with what text, is up to the user.
Next ==
    \/ \E t \in Texts : ItemEnter(t)
    \/ \E q \in Texts : KeywordQuery(q)
    \/ Tick

Spec == Init /\ [][Next]_vars

\* ------------------------------------------- _sanitize_input on its own
Pad(n) == [i \in 1..n |-> " "]

\* a text of len characters, all visible but for one blank at position gap
\* (gap = 0: no blank)
Body(len, gap) == [i \in 1..len |-> IF i = gap THEN " " ELSE "a"]

\* lengths around the cut of main.py:101
BodyLengths == { 0, 1, 2, 3, SanitizeLimit - 1, SanitizeLimit, SanitizeLimit + 1,
                 SanitizeLimit + 2 }

GapPositions == { 2, SanitizeLimit - 1, SanitizeLimit, SanitizeLimit + 1 }

\* the texts handed to _sanitize_input: a body that starts and ends with a
\* visible character, padded with whitespace on both sides; the empty text
\* stands for "" and for None, which "if not text" treats alike
SanTexts ==
    { [lead |-> l, len |-> n, gap |-> g, trail |-> t,
       text |-> (Pad(l) \o Body(n, g)) \o Pad(t),
       passes |-> 0, out |-> << >>, twice |-> << >>]
      : l \in 0..MaxPad, t \in 0..MaxPad,
        n \in BodyLengths,
        g \in { 0 } \cup GapPositions }

SanInit ==
    /\ available = FALSE
    /\ prefs = [credentials_path |-> "", tasklist_id |-> ""]
    /\ credFile = FALSE
    /\ dirExists = FALSE
    /\ tokenFile = None
    /\ token_manager = None
    /\ service = None
    /\ now = 1
    /\ nextTok = 2
    /\ authCount = 0
    /\ last = NoCall
    /\ san \in { s \in SanTexts : s.gap = 0 \/ (1 < s.gap /\ s.gap < s.len) }
    /\ conc = NoProcesses

\* _sanitize_input(text)
SanitizeOnce ==
    /\ san.passes = 0
    /\ san' = [san EXCEPT !.passes = 1, !.out = sanitize_input(san.text)]
    /\ UNCHANGED << available, prefs, credFile, dirExists, tokenFile, token_manager,
                    service, now, nextTok, authCount, last, conc >>

\* _sanitize_input(_sanitize_input(text))
SanitizeAgain ==
    /\ san.passes = 1
    /\ san' = [san EXCEPT !.passes = 2, !.twice = sanitize_input(san.out)]
    /\ UNCHANGED << available, prefs, credFile, dirExists, tokenFile, token_manager,
                    service, now, nextTok, authCount, last, conc >>

SanNext == SanitizeOnce \/ SanitizeAgain

SanSpec == SanInit /\ [][SanNext]_vars

\* ---------------------------- two processes on one token file (main.py:47-78)
\* Here the content of the token file is the text of the serialization,
\* character by character: Credentials.to_json() as "{tok,rt,exp}" with the
\* numbers in decimal, so that credentials differ in the length of their text.
DigitChars == << "0", "1", "2", "3", "4", "5", "6", "7", "8", "9" >>

RECURSIVE Decimal(_)
Decimal(n) ==
    IF n < 10 THEN << DigitChars[n + 1] >>
    ELSE Append(Decimal(n \div 10), DigitChars[(n % 10) + 1])

\* the text token.write(creds.to_json()) hands to the file
json_text(c) ==
    LET j == to_json(c)
    IN  << "{" >> \o Decimal(j[1]) \o << "," >> \o Decimal(j[2]) \o << "," >>
        \o Decimal(j[3]) \o << "}" >>

IsNumber(s) == s # << >> /\ \A i \in 1..Len(s) : \E d \in 1..10 : DigitChars[d] = s[i]

RECURSIVE Number(_)
Number(s) ==
    IF s = << >> THEN 0
    ELSE 10 * Number(SubSeq(s, 1, Len(s) - 1))
         + ((CHOOSE d \in 1..10 : DigitChars[d] = s[Len(s)]) - 1)

\* json.load of the file's text: the serialized fields, or None for a text
\* that is not one complete JSON document
ParseJson(content) ==
    LET n == Len(content)
        commas == { i \in 1..n : content[i] = "," }
    IN  IF n < 2 \/ content[1] # "{" \/ content[n] # "}" \/ Cardinality(commas) # 2
        THEN None
        ELSE LET c1 == CHOOSE i \in commas : \A k \in commas : i <= k
                 c2 == CHOOSE i \in commas : \A k \in commas : k <= i
                 f1 == SubSeq(content, 2, c1 - 1)
                 f2 == SubSeq(content, c1 + 1, c2 - 1)
                 f3 == SubSeq(content, c2 + 1, n - 1)
             IN  IF IsNumber(f1) /\ IsNumber(f2) /\ IsNumber(f3)
                 THEN Some(<< Number(f1), Number(f2), Number(f3) >>)
                 ELSE None

\* write(2) at the descriptor's offset 0 of a file opened without O_APPEND:
\* the text replaces the first Len(text) characters, what lies beyond stays
Overlay(text, content) ==
    IF Len(text) >= Len(content) THEN text
    ELSE text \o SubSeq(content, Len(text) + 1, Len(content))

ProcAt(p, pc) == conc.proc[p].pc = pc

ProcMoves(p, pc, creds, saved) ==
    [conc EXCEPT !.proc[p] = [pc |-> pc, creds |-> creds, saved |-> saved]]

\* main.py:48-52
Load(p) ==
    /\ ProcAt(p, "load")
    /\ \E creds \in
          { None } \cup
          (IF tokenFile # None /\ ParseJson(tokenFile[1].content) # None
           THEN { Some(from_authorized_user_file(ParseJson(tokenFile[1].content)[1])) }
           ELSE { }) :
          conc' = ProcMoves(p, "renew", creds, FALSE)
    /\ UNCHANGED << available, prefs, credFile, dirExists, tokenFile, token_manager,
                    service, now, nextTok, authCount, last, san >>

\* main.py:55-70: return valid credentials, else refresh and run the flow
Renew(p) ==
    /\ ProcAt(p, "renew")
    /\ LET l == [creds |-> conc.proc[p].creds, ev |-> << >>]
       IN  IF l.creds # None /\ valid(l.creds[1], now)
           THEN conc' = ProcMoves(p, "done", l.creds, FALSE) /\ nextTok' = nextTok
           ELSE \E r \in RefreshToken(l) :
                  \E f \in RunFlow([credentials_path |-> prefs.credentials_path], r) :
                    /\ conc' = IF f.failed THEN ProcMoves(p, "done", None, FALSE)
                               ELSE ProcMoves(p, "open", f.creds, FALSE)
                    /\ nextTok' = IF Issued(f.ev) THEN nextTok + 1 ELSE nextTok
    /\ UNCHANGED << available, prefs, credFile, dirExists, tokenFile, token_manager,
                    service, now, authCount, last, san >>

\* main.py:74: open(token_file, 'w') creates or truncates the file, or raises
Open(p) ==
    /\ ProcAt(p, "open")
    /\ \/ /\ conc' = ProcMoves(p, "write", conc.proc[p].creds, FALSE)
          /\ \E m \in IF tokenFile = None THEN CreateModes ELSE { tokenFile[1].mode } :
                tokenFile' = Some([content |-> << >>, mode |-> m])
       \/ /\ conc' = ProcMoves(p, "done", conc.proc[p].creds, FALSE)
          /\ tokenFile' = tokenFile
    /\ UNCHANGED << available, prefs, credFile, dirExists, token_manager, service, now,
                    nextTok, authCount, last, san >>

\* main.py:75: the text is buffered and reaches the file in one write when
\* the with block closes it; a write that raises leaves a prefix of the text
Write(p) ==
    /\ ProcAt(p, "write")
    /\ LET text == json_text(conc.proc[p].creds[1])
       IN  \/ /\ tokenFile' = Some([tokenFile[1] EXCEPT
                                      !.content = Overlay(text, tokenFile[1].content)])
              /\ conc' = [ProcMoves(p, "chmod", conc.proc[p].creds, FALSE)
                            EXCEPT !.wrote = Append(conc.wrote, p)]
           \/ \E k \in 0..(Len(text) - 1) :
                /\ tokenFile' = Some([tokenFile[1] EXCEPT
                                        !.content = Overlay(SubSeq(text, 1, k),
                                                            tokenFile[1].content)])
                /\ conc' = ProcMoves(p, "done", conc.proc[p].creds, FALSE)
    /\ UNCHANGED << available, prefs, credFile, dirExists, token_manager, service, now,
                    nextTok, authCount, last, san >>

\* main.py:76: os.chmod(token_file, 0o600), or it raises and the save ends
Chmod(p) ==
    /\ ProcAt(p, "chmod")
    /\ \/ /\ tokenFile' = Some([tokenFile[1] EXCEPT !.mode = OwnerOnly])
          /\ conc' = ProcMoves(p, "done", conc.proc[p].creds, TRUE)
       \/ /\ tokenFile' = tokenFile
          /\ conc' = ProcMoves(p, "done", conc.proc[p].creds, FALSE)
    /\ UNCHANGED << available, prefs, credFile, dirExists, token_manager, service, now,
                    nextTok, authCount, last, san >>

\* two processes enter get_credentials past its early returns; the remote
\* side is about to issue tokens whose texts differ in length
ConcInit ==
    /\ available = TRUE
    /\ prefs = [credentials_path |-> "credentials.json", tasklist_id |-> ""]
    /\ credFile = TRUE
    /\ dirExists = TRUE
    /\ tokenFile \in { None } \cup
                      { Some([content |-> c, mode |-> m])
                        : c \in { << >> } \cup { json_text(k) : k \in InitCreds },
                          m \in CreateModes }
    /\ token_manager = Some([credentials_path |-> prefs.credentials_path])
    /\ service = None
    /\ now = 1
    /\ nextTok \in { 2, 9 }
    /\ authCount = 0
    /\ last = NoCall
    /\ san = NoText
    /\ conc = [proc |-> [p \in Procs |-> [pc |-> "load", creds |-> None, saved |-> FALSE]],
               wrote |-> << >>]

\* the operating system runs one step of one of the processes
ConcNext == \E p \in Procs : Load(p) \/ Renew(p) \/ Open(p) \/ Write(p) \/ Chmod(p)

ConcSpec == ConcInit /\ [][ConcNext]_vars

\* ================================================================ claims
Has(ev, name) == \E i \in 1..Len(ev) : ev[i] = name

RemoteEvents == { "refresh", "refresh_fail", "flow", "flow_fail", "build",
                  "build_fail", "list", "list_fail", "insert", "insert_fail" }

FlowEvents == { "flow", "flow_fail", "secrets_fail" }

FlowRuns(ev) == Count(ev, FlowEvents)

FlowRaised(ev) == Has(ev, "flow_fail") \/ Has(ev, "secrets_fail")

\* the last event called get_credentials and the call went past its early returns
Attempted == last.gc # None /\ Has(last.ev, "authenticate")

\* the stored credentials loaded and were accepted: valid as loaded, or refreshed
ResumeAccepted ==
    /\ Attempted
    /\ last.gc[1].loaded # None
    /\ \/ valid(last.gc[1].loaded[1], last.at)
       \/ Has(last.ev, "refresh")

\* C1: when the token file exists and the stored credentials are accepted
\* (loaded and valid, or expired with a refresh token and refreshed), the call
\* returns those credentials (unchanged if valid, else validly refreshed with
\* the same refresh token) and the interactive flow is run zero times.
C1_ResumeExcludesFreshLogin ==
    ResumeAccepted =>
        /\ last.gc[1].ret # None
        /\ FlowRuns(last.ev) = 0
        /\ valid(last.gc[1].loaded[1], last.at) => last.gc[1].ret = last.gc[1].loaded
        /\ Has(last.ev, "refresh") =>
              /\ valid(last.gc[1].ret[1], last.at)
              /\ last.gc[1].ret[1].rt = last.gc[1].loaded[1].rt

C1_Witness ==
    /\ ResumeAccepted
    /\ Has(last.ev, "refresh")
    /\ last.gc[1].ret # None

\* the stored credentials loaded but were rejected: not valid, and either not
\* refreshable (not expired, or no refresh token) or the refresh raised
StoredRejected ==
    /\ Attempted
    /\ last.gc[1].loaded # None
    /\ ~valid(last.gc[1].loaded[1], last.at)
    /\ \/ ~expired(last.gc[1].loaded[1], last.at)
       \/ ~last.gc[1].loaded[1].rt
       \/ Has(last.ev, "refresh_fail")

\* the credentials the save step of the last call wrote to the token file
WroteInvalid ==
    /\ Has(last.ev, "write")
    /\ last.gc[1].ret # None
    /\ ~valid(last.gc[1].ret[1], last.at)

\* C2: stored credentials that load but are rejected lead to the interactive
\* flow; get_credentials never returns, and never writes, invalid credentials.
C2_RejectedTokenLeadsToFreshLogin ==
    /\ StoredRejected => FlowRuns(last.ev) >= 1
    /\ Attempted /\ last.gc[1].ret # None => valid(last.gc[1].ret[1], last.at)
    /\ Attempted => ~WroteInvalid

\* C3: when the interactive flow raises, get_credentials returns None, the
\* token file keeps its existence, content and mode, and service stays None.
C3_FailedFreshLoginLeavesNoTrace ==
    [][(last'.op = "ItemEnter" /\ FlowRaised(last'.ev)) =>
            /\ last'.gc # None /\ last'.gc[1].ret = None
            /\ tokenFile' = tokenFile
            /\ service' = None]_vars

C3_Witness ==
    /\ Has(last.ev, "flow_fail")
    /\ Has(last.ev, "refresh_fail")
    /\ tokenFile # None

\* the last call ran a successful interactive flow with no token file before it
FreshLoginNoRecord ==
    /\ Attempted
    /\ Has(last.ev, "flow")
    /\ ~Has(last.ev, "load") /\ ~Has(last.ev, "load_fail")
    /\ last.gc[1].ret # None

\* the token file holds exactly the serialization of c, and loading it gives c
TokenFileHolds(c) ==
    /\ tokenFile # None
    /\ tokenFile[1].content = to_json(c)
    /\ Parses(tokenFile[1].content)
    /\ from_authorized_user_file(tokenFile[1].content) = c

C5_NoFailureEscapes ==
    last.op = "ItemEnter" =>
        /\ ~last.raised
        /\ last.action = "HideWindowAction"
        /\ last.called => last.result # None

\* C6: service becomes non-None only from credentials that get_credentials
\* returned and whose build succeeded; after a get_tasks_service call in which
\* get_credentials returned None or build raised, service is still None.
C6_NoPartialAuthenticatedState ==
    [][/\ service' # service =>
            /\ last'.gc # None /\ last'.gc[1].ret # None
            /\ Has(last'.ev, "build")
            /\ service' = Some([creds |-> last'.gc[1].ret[1]])
       /\ (/\ last'.op = "ItemEnter"
           /\ last'.gc # None
           /\ last'.gc[1].ret = None \/ Has(last'.ev, "build_fail")) =>
            service' = None]_vars

C6_Witness ==
    /\ Has(last.ev, "build_fail")
    /\ last.gc[1].ret # None
    /\ service = None

\* C7 as stated: get_credentials is performed at most once per process,
\* whatever its outcome.
C7_AuthenticationAtMostOnce == authCount <= 1

\* C7 amended: get_credentials is performed only while no service is cached
\* and at most once per event; once an attempt has produced the service no
\* further attempt is made and the service is the one every later event uses.
C7_AuthenticationOnlyWhileUncached ==
    [][/\ authCount' <= authCount + 1
       /\ service # None => (authCount' = authCount /\ service' = service)]_vars

C7_Witness ==
    /\ service # None
    /\ authCount >= 1
    /\ last.op = "ItemEnter" /\ last.called
    /\ last.gc = None
    /\ Has(last.ev, "insert")

\* the credentials_path preference is empty or names a file that does not exist
MissingConfiguration == prefs.credentials_path = "" \/ ~credFile

\* C8: with missing configuration no call refreshes, runs the interactive
\* flow, builds the service or calls the Tasks API; get_credentials returns
\* None and service stays None.
C8_MissingConfigurationNoRemoteAttempt ==
    (MissingConfiguration /\ last.op = "ItemEnter") =>
        /\ Count(last.ev, RemoteEvents) = 0
        /\ last.gc # None => last.gc[1].ret = None
        /\ service = None

\* C9: with the credentials file absent an authentication attempt leaves the
\* file system as it was: the storage directory is not created and the token
\* file is neither read, created nor modified.
C9_MissingConfigurationNoIO ==
    [][(/\ prefs.credentials_path # "" /\ ~credFile
        /\ last'.op = "ItemEnter" /\ last'.called) =>
            /\ dirExists' = dirExists
            /\ tokenFile' = tokenFile
            /\ ~Has(last'.ev, "load") /\ ~Has(last'.ev, "load_fail")]_vars

\* C10: for empty or whitespace-only task text add_task_to_google_tasks
\* returns (False, "Invalid task text") with no remote interaction in the call.
C10_InvalidInputNoRemoteCall ==
    (/\ last.op = "ItemEnter" /\ last.called
     /\ sanitize_input(last.text) = << >>) =>
        /\ Count(last.ev, RemoteEvents) = 0
        /\ last.result = Result(FALSE, "Invalid task text")

\* the token file is absent or holds a complete serialization
CompleteStore == tokenFile = None \/ Parses(tokenFile[1].content)

\* C11: the program never leaves the token file empty or partially written:
\* whenever it changes the file's content, the file then holds the full
\* serialization written by that call's save, whatever step of the save raised.
C11_TokenFileAlwaysCompleteStore ==
    [][/\ CompleteStore => CompleteStore'
       /\ (tokenFile' # None /\ (tokenFile = None \/ tokenFile'[1].content # tokenFile[1].content)) =>
             /\ last'.gc # None /\ last'.gc[1].ret # None
             /\ tokenFile'[1].content = to_json(last'.gc[1].ret[1])]_vars

\* the save step of the last call left text of its credentials in the token file
WroteTokenContent ==
    /\ tokenFile # None
    /\ \/ Has(last.ev, "write")
       \/ Has(last.ev, "write_fail") /\ tokenFile[1].content # << >>

\* C12: after a get_credentials call that put token content into the token
\* file, the file's mode is owner read/write only, for every outcome of the save.
C12_OwnerOnlyPermissionsOnWrite ==
    WroteTokenContent => tokenFile[1].mode = OwnerOnly

\* the last call found no token file, or its load of the token file raised
NoUsableToken == Attempted /\ last.gc[1].loaded = None

SaveEvents == { "open_fail", "write_fail", "write" }

InstallNotice == "Google Tasks API not available"

\* C14: with the dependency missing every event ends in the disabled outcome:
\* add_task_to_google_tasks returns (False, "Google Tasks service not
\* available") without raising, the keyword listener renders only the install
\* notice, no token manager is constructed, the file system is untouched, no
\* remote call or authentication step happens, and service remains None.
C14_MissingDependencyDisablesCleanly ==
    [][~available =>
          /\ token_manager' = None /\ service' = None
          /\ dirExists' = dirExists /\ tokenFile' = tokenFile
          /\ authCount' = authCount
          /\ last'.ev = << >> /\ ~last'.raised
          /\ last'.gc # None => last'.gc[1].ret = None
          /\ (last'.op = "ItemEnter" /\ last'.called) =>
                last'.result = Result(FALSE, "Google Tasks service not available")
          /\ last'.op = "ItemEnter" => last'.action = "HideWindowAction"
          /\ last'.op = "KeywordQuery" =>
                last'.item = InstallNotice /\ last'.action = "RenderResultListAction"]_vars

C14_Witness ==
    /\ ~available
    /\ last.op = "ItemEnter" /\ last.called
    /\ last.result = Result(FALSE, "Google Tasks service not available")
    /\ ~dirExists

\* the save step reached the token file: open(token_file, 'w') succeeded
TokenFileWritten(ev) == Has(ev, "write") \/ Has(ev, "write_fail")

\* C17: a call of get_credentials whose stored credentials load and are
\* already valid leaves the token file's content and permissions unchanged,
\* and the token file is written only in calls where a refresh or an
\* interactive flow took place.
C17_TokenFileWrittenOnlyAfterRefreshOrFlow ==
    [][/\ (/\ last'.gc # None /\ last'.gc[1].loaded # None
           /\ valid(last'.gc[1].loaded[1], last'.at)) =>
              tokenFile' = tokenFile /\ ~TokenFileWritten(last'.ev)
       /\ (tokenFile' # tokenFile \/ (last' # last /\ TokenFileWritten(last'.ev))) =>
              Has(last'.ev, "refresh") \/ Has(last'.ev, "flow")]_vars

AuthenticationEvents ==
    { "mkdir", "mkdir_fail", "authenticate", "load", "load_fail", "refresh",
      "refresh_fail", "flow", "flow_fail", "secrets_fail", "open_fail",
      "write_fail", "write", "chmod", "chmod_fail", "build", "build_fail" }

\* C18: once service is non-None it is never reset to None or replaced, and
\* from then on no operation reads the token file, refreshes credentials,
\* runs the interactive flow or writes the token file, even when a later
\* Tasks API call fails.
C18_CachedServiceStable ==
    [][service # None =>
          /\ service' = service
          /\ tokenFile' = tokenFile
          /\ token_manager' = token_manager /\ dirExists' = dirExists
          /\ nextTok' = nextTok
          /\ last' # last =>
                /\ Count(last'.ev, AuthenticationEvents) = 0
                /\ last'.gc = None /\ ~last'.raised]_vars

C18_Witness ==
    /\ service # None
    /\ last.called /\ last.gc = None
    /\ Has(last.ev, "list_fail") \/ Has(last.ev, "insert_fail")

InsertEvents == { "insert", "insert_fail" }

\* the text has a character that is not whitespace
HasVisibleCharacter(text) == \E i \in 1..Len(text) : ~IsSpace(text[i])

\* C19: in every call of add_task_to_google_tasks insert is invoked at most
\* once, and only with the service available, a non-empty sanitized text and
\* a resolved task list id (the tasklist_id preference if non-empty, otherwise
\* the first list returned by tasklists().list()); success = True exactly when
\* insert was invoked and did not raise; (False, "No task list available") is
\* returned without invoking insert when no id can be resolved.
C19_InsertGuardedAndDecidesResult ==
    last.called =>
        /\ Count(last.ev, InsertEvents) <= 1
        /\ Count(last.ev, InsertEvents) = 1 =>
              /\ available /\ service # None
              /\ HasVisibleCharacter(last.text)
              /\ last.sent # None /\ last.sent[1].title # << >>
              /\ last.sent[1].tasklist # ""
              /\ IF prefs.tasklist_id # ""
                 THEN last.sent[1].tasklist = prefs.tasklist_id
                      /\ Count(last.ev, { "list", "list_fail" }) = 0
                 ELSE last.sent[1].tasklist = "list0" /\ Has(last.ev, "list")
              /\ last.ev[Len(last.ev)] \in InsertEvents
        /\ Count(last.ev, InsertEvents) = 0 => last.sent = None
        /\ (last.result # None /\ last.result[1].success) <=> Has(last.ev, "insert")
        /\ Has(last.ev, "insert") => last.result = Result(TRUE, "Task added successfully")
        /\ (/\ ~last.raised /\ service # None /\ HasVisibleCharacter(last.text)
            /\ prefs.tasklist_id = "" /\ ~Has(last.ev, "list")) =>
              /\ last.result = Result(FALSE, "No task list available")
              /\ Count(last.ev, InsertEvents) = 0

C19_Witness ==
    /\ last.called /\ Has(last.ev, "insert") /\ Has(last.ev, "list")
    /\ prefs.tasklist_id = "" /\ last.result[1].success


Min(a, b) == IF a < b THEN a ELSE b

\* the text is san.lead blanks, then san.len characters of which the first
\* and the last are visible, then only blanks
PaddedBody ==
    /\ \A i \in 1..san.lead : IsSpace(san.text[i])
    /\ \A i \in (san.lead + san.len + 1)..Len(san.text) : IsSpace(san.text[i])
    /\ san.len > 0 => /\ ~IsSpace(san.text[san.lead + 1])
                      /\ ~IsSpace(san.text[san.lead + san.len])

\* C15: _sanitize_input returns the text with leading and trailing whitespace
\* removed and then cut to its first 1000 characters; the result has length
\* at most 1000, and empty, missing or whitespace-only input yields "".
C15_SanitizerResult ==
    san.passes >= 1 =>
        /\ PaddedBody
        /\ Len(san.out) = Min(san.len, SanitizeLimit)
        /\ \A i \in 1..Len(san.out) : san.out[i] = san.text[san.lead + i]
        /\ Len(san.out) <= SanitizeLimit
        /\ ~HasVisibleCharacter(san.text) => san.out = << >>

C15_Witness ==
    /\ san.passes >= 1
    /\ san.lead > 0 /\ san.trail > 0 /\ san.len > SanitizeLimit
    /\ Len(san.out) = SanitizeLimit

\* the text neither starts nor ends with whitespace
Trimmed(text) ==
    text # << >> => ~IsSpace(text[1]) /\ ~IsSpace(text[Len(text)])

\* C20 as stated: sanitizing a sanitized text changes nothing, and a
\* sanitized text has no leading or trailing whitespace, also when the
\* trimmed text is longer than 1000 characters and is cut.
C20_SanitizingIdempotent ==
    san.passes = 2 => san.twice = san.out /\ Trimmed(san.out)

\* the cut of main.py:101 falls on a blank of the trimmed text
CutAtWhitespace ==
    san.len > SanitizeLimit /\ IsSpace(san.text[san.lead + SanitizeLimit])

\* C20 amended: sanitizing is idempotent, and its result has no leading or
\* trailing whitespace, unless the trimmed text is longer than 1000
\* characters and its 1000th character is whitespace; in that case the
\* result keeps the whitespace the cut ends on, has no leading whitespace,
\* and a second pass removes just that trailing whitespace.
C20_SanitizingIdempotentUnlessCutAtWhitespace ==
    san.passes = 2 =>
        /\ PaddedBody
        /\ ~CutAtWhitespace => san.twice = san.out /\ Trimmed(san.out)
        /\ san.out # << >> => ~IsSpace(san.out[1])
        /\ CutAtWhitespace =>
              /\ IsSpace(san.out[Len(san.out)])
              /\ Trimmed(san.twice)
              /\ Len(san.twice) < Len(san.out)
              /\ \A i \in 1..Len(san.twice) : san.twice[i] = san.out[i]
              /\ \A i \in (Len(san.twice) + 1)..Len(san.out) : IsSpace(san.out[i])

C20_Witness ==
    /\ san.passes = 2
    /\ san.lead > 0 /\ san.trail > 0 /\ san.len > SanitizeLimit
    /\ san.gap = SanitizeLimit - 1
    /\ san.twice = san.out /\ Len(san.twice) = SanitizeLimit

BothSaved == \A p \in Procs : ProcAt(p, "done") /\ conc.proc[p].saved

LastWriter == conc.wrote[Len(conc.wrote)]

\* C16: when two processes run get_credentials concurrently on one token file
\* and both complete a save, the token file ends holding exactly the complete
\* credentials of the process that wrote last, never a mixture or truncation
\* of the two.
C16_LastWriterWins ==
    BothSaved =>
        /\ tokenFile # None
        /\ tokenFile[1].content = json_text(conc.proc[LastWriter].creds[1])

====
